---------------------------- MODULE Spec2Model ----------------------------
(***************************************************************************)
(* Model of diana's parallel collector                                     *)
(* (package/diana/daemons/collector2.py) and of the raw-file destination   *)
(* it writes to (package/diana/apis/dcmdir.py).                            *)
(*                                                                         *)
(* Three specifications share the per-item handler:                        *)
(*   Spec         one process calling Collector.handle_item, call after    *)
(*                call, with every argument and collaborator response;     *)
(*   SpecWorkers  processes calling handle_item concurrently on the        *)
(*                module-level shared counters (what pool workers do);     *)
(*   SpecRun      Collector.run, statement by statement.                   *)
(*                                                                         *)
(* Collaborators whose code is outside the repository files at hand (the   *)
(* remote source and its proxy, the file gateways, the CSV key sink) are   *)
(* modelled by their possible responses.                                   *)
(***************************************************************************)
EXTENDS Integers, Sequences, FiniteSets, TLC

\* ------------------------------------------------------------- bounds
NItems == 2      \* distinct accession numbers
NProcs == 2      \* processes calling handle_item concurrently
MaxCalls == 2    \* handle_item calls made in one behaviour of Spec
MaxWorkerCalls == 3   \* handle_item calls made in one behaviour of SpecWorkers
MaxLen == 3      \* longest worklist given to run
MaxPool == 2     \* largest pool_size

Items == 1..NItems
Main == 0                      \* the process that executes run
Workers == 1..NProcs           \* processes executing handle_item in parallel
Procs == {Main} \cup Workers

VARIABLES
    handled, skipped, failed,  \* the three multiprocessing.Value('i', 0)
    dest,                      \* file names present at data_dest
    reports,                   \* accession numbers written to report_dest
    queue,                     \* key_handler.queue: tuples put by handlers
    sink,                      \* rows of the key sink: <<writer, key_id, key_data>>
    anonymize, save_as_im, inline_reports,   \* arguments of run / handle_item
    pc, item, kh, radcat, tmp, ctr, exc, log,   \* one handle_item frame per process
    fate,                      \* how the remote source answers the call
    did, entry, present, incs, ncalls,       \* history of the calls
    dest0,                     \* data_dest as it was at the start
    keyed,                     \* <<key_id, key_data, key_handler>> of the calls
                               \* that reached line 142, in order
    pool_size, pool,           \* Collector.pool_size, Collector.pool
    runpc, runexc,             \* where run is, and the exception that ended it
    worklist, wlKind, pos,     \* run's worklist argument and how far it is consumed
    sinkTruthy,                \* truth value of run's key_handler object
    optimized,                 \* the interpreter strips assert statements (-O),
                               \* known once line 91 has run
    pfn,                       \* run's local p
    keyWriter,                 \* the process made at line 91
    slice, pulls,              \* indexes islice last yielded; times each was yielded
    wall,                      \* toc - tic, in whole seconds
    elapsed_time               \* line 102

ctrVars == <<handled, skipped, failed>>
storeVars == <<dest, reports, queue, sink>>
cfgVars == <<anonymize, save_as_im, inline_reports>>
frameVars == <<pc, item, kh, fate, radcat, tmp, ctr, exc, log>>
histVars == <<did, entry, present, incs, ncalls, dest0, keyed>>
runVars == <<pool_size, pool, runpc, runexc, worklist, wlKind, pos, sinkTruthy, optimized,
             pfn, keyWriter, slice, pulls, wall, elapsed_time>>
vars == <<ctrVars, storeVars, cfgVars, frameVars, histVars, runVars>>

CounterNames == {"handled", "skipped", "failed"}

\* ------------------------------------------------------ the work item
\* A Dixel as far as the handler reads and changes it: tags["AccessionNumber"],
\* whether find()'s tags were merged in, whether it is the proxy's anonymized
\* copy, and whether it carries a file payload.  kind "str" is a bare
\* accession number string, which is what worklist_from_accession_nums returns.
Dixel(a) == [acc |-> a, kind |-> "dixel", resolved |-> FALSE, anon |-> FALSE, file |-> FALSE]
AccStr(a) == [acc |-> a, kind |-> "str", resolved |-> FALSE, anon |-> FALSE, file |-> FALSE]
NoItem == [acc |-> 0, kind |-> "none", resolved |-> FALSE, anon |-> FALSE, file |-> FALSE]

\* item.fn(): the destination's file name, a function of the item's tags
\* alone (the anonymized copy has other tags), never of the payload.
Fn(it) == <<it.acc, it.anon>>

\* The answers of the remote source to one call, up to the first that ends it:
\*   nometa     find() returns []
\*   notstaged  find() returns tags, proxy.exists() is false
\*   notfound   ... proxy.get() raises FileNotFoundError
\*   geterror   ... proxy.get() raises another exception
\*   nofile     ... proxy.get() returns an item whose file is empty
\*   delfail    ... proxy.get() returns the payload, proxy.delete() raises
\*   ok         every call succeeds
Fates == {"nometa", "notstaged", "notfound", "geterror", "nofile", "delfail", "ok"}

\* Truth value of the key_handler argument at `if key_handler:`.
\* "EmptySink" is a sink object that tests false.
Truthy(k) == k \in {"Sink", "Queue"}

\* isinstance(key_handler, Queue) with Queue imported from multiprocessing:
\* that name is a factory function of the default context, not a class, so
\* the call raises TypeError for every first argument.
IsInstanceQueue(k) == "TypeError"

\* The counter each exit path increments.
SkipCounter == "skipped"
FailCounter == "failed"
DoneCounter == "handled"

\* `x.value += 1`: the value stored back for a value read.
Incremented(v) == v + 1

\* The statement that follows the increment and the progress line: `return`
\* (or the end of the function).
NextAfterStoreFallThrough(c) == IF c = SkipCounter THEN "find" ELSE "returned"
NextAfterStore(c) == "returned"

\* if anonymize and not isinstance(data_dest, ImageDir)
ShouldAnonymizeAnyDest == anonymize
ShouldAnonymize == anonymize /\ ~save_as_im

Get(c) == CASE c = "handled" -> handled
            [] c = "skipped" -> skipped
            [] c = "failed" -> failed

Quiet(q) == pc[q] \in {"idle", "returned", "raised"}

Logged(p, op, it) == log' = [log EXCEPT ![p] = Append(@, <<op, it>>)]

Goto(p, l) == pc' = [pc EXCEPT ![p] = l]

Raise(p, e) ==
    /\ pc' = [pc EXCEPT ![p] = "raised"]
    /\ exc' = [exc EXCEPT ![p] = e]

\* -------------------------------------------------- Collector.handle_item
\* Entry of a call by process p with the given item and key_handler, the
\* source answering as f says.
Enter(p, it, k, f) ==
    /\ pc' = [pc EXCEPT ![p] = "keying"]
    /\ item' = [item EXCEPT ![p] = it]
    /\ kh' = [kh EXCEPT ![p] = k]
    /\ fate' = [fate EXCEPT ![p] = f]
    /\ present' = [present EXCEPT ![p] = Fn(it) \in dest]
    /\ radcat' = [radcat EXCEPT ![p] = "unset"]
    /\ exc' = [exc EXCEPT ![p] = "none"]
    /\ log' = [log EXCEPT ![p] = <<>>]
    /\ did' = [did EXCEPT ![p] = <<>>]
    /\ entry' = [entry EXCEPT ![p] = <<handled, skipped, failed>>]
    /\ ncalls' = ncalls + 1
    /\ UNCHANGED <<tmp, ctr, incs, dest0, keyed>>

\* key_handler.put(key_id, key_data) of the CSV-backed keyed map: the row of
\* key_id is written, replacing the row that key had.  A row is <<writer,
\* key_id, key_data>>.
SinkPut(rows, w, k, v) == {r \in rows : r[2] # k} \cup {<<w, k, v>>}

\* KEYING, lines 123-145.  A Dixel carries the tags and meta entries that
\* key_data reads; radcat() returns a category or raises ValueError, which is
\* caught.  A truthy key_handler reaches the isinstance test of line 142.
Keying(p) ==
    /\ pc[p] = "keying"
    /\ UNCHANGED <<ctrVars, dest, reports, cfgVars, item, kh, fate, tmp, ctr, runVars>>
    /\ UNCHANGED <<did, entry, present, incs, ncalls, dest0>>
    /\ IF item[p].kind = "str"
       THEN \* item.report on a str
            /\ Raise(p, "AttributeError")
            /\ UNCHANGED <<radcat, log, queue, sink>>
       ELSE \E cat \in {"cat", ""} :      \* "" : radcat() raised ValueError
            /\ radcat' = [radcat EXCEPT ![p] = cat]
            /\ IF ~Truthy(kh[p])
               THEN /\ Goto(p, "report")
                    /\ UNCHANGED <<exc, log, queue, sink>>
               ELSE CASE IsInstanceQueue(kh[p]) = "TypeError" ->
                             /\ Raise(p, "TypeError")
                             /\ UNCHANGED <<log, queue, sink>>
                      [] IsInstanceQueue(kh[p]) = "True" ->
                             /\ queue' = Append(queue, <<item[p].acc, cat>>)
                             /\ Logged(p, "queue.put", item[p])
                             /\ Goto(p, "report")
                             /\ UNCHANGED <<exc, sink>>
                      [] OTHER ->
                             /\ sink' = SinkPut(sink, p, item[p].acc, cat)
                             /\ Logged(p, "key_handler.put", item[p])
                             /\ Goto(p, "report")
                             /\ UNCHANGED <<exc, queue>>

\* The keying step, with and without a record of what it came to line 142
\* with.
KeyingStep(p) == Keying(p) /\ UNCHANGED keyed

KeyingRecorded(p) ==
    /\ Keying(p)
    /\ keyed' = IF item[p].kind = "dixel" /\ Truthy(kh[p])
                 THEN Append(keyed, <<item[p].acc, radcat'[p], kh[p]>>)
                 ELSE keyed

\* REPORT, lines 151-152.
Report(p) ==
    /\ pc[p] = "report"
    /\ Goto(p, "exists")
    /\ IF ~inline_reports
       THEN /\ reports' = reports \cup {item[p].acc}
            /\ Logged(p, "report_dest.put", item[p])
       ELSE UNCHANGED <<reports, log>>
    /\ UNCHANGED <<ctrVars, dest, queue, sink, cfgVars, item, kh, fate, radcat, tmp, ctr, exc,
                   histVars, runVars>>

\* if data_dest.exists(item), line 158.
Exists(p) ==
    /\ pc[p] = "exists"
    /\ Logged(p, "data_dest.exists", item[p])
    /\ IF Fn(item[p]) \in dest
       THEN /\ ctr' = [ctr EXCEPT ![p] = SkipCounter]
            /\ Goto(p, "load")
       ELSE /\ Goto(p, "find")
            /\ UNCHANGED ctr
    /\ UNCHANGED <<ctrVars, storeVars, cfgVars, item, kh, fate, radcat, tmp, exc, histVars, runVars>>

\* The read half of `x.value += 1` (lines 160, 186, 196, 211, 220): Value's
\* getter takes the lock, reads, releases.
Load(p) ==
    /\ pc[p] = "load"
    /\ tmp' = [tmp EXCEPT ![p] = Get(ctr[p])]
    /\ Goto(p, "store")
    /\ UNCHANGED <<ctrVars, storeVars, cfgVars, item, kh, fate, radcat, ctr, exc, log, histVars,
                   runVars>>

\* The write half: Value's setter takes the lock again and stores; then the
\* progress line is printed (it reads the counters and changes nothing) and
\* the function returns.
Store(p) ==
    /\ pc[p] = "store"
    /\ handled' = IF ctr[p] = "handled" THEN Incremented(tmp[p]) ELSE handled
    /\ skipped' = IF ctr[p] = "skipped" THEN Incremented(tmp[p]) ELSE skipped
    /\ failed' = IF ctr[p] = "failed" THEN Incremented(tmp[p]) ELSE failed
    /\ did' = [did EXCEPT ![p] = Append(@, ctr[p])]
    /\ incs' = [incs EXCEPT ![ctr[p]] = @ + 1]
    /\ Goto(p, NextAfterStore(ctr[p]))
    /\ UNCHANGED <<storeVars, cfgVars, item, kh, fate, radcat, tmp, ctr, exc, log, entry,
                   present, ncalls, dest0, keyed, runVars>>

\* source.find(mkq(item), retrieve=True) on a fresh copy of source, lines 181-191.
Find(p) ==
    /\ pc[p] = "find"
    /\ Logged(p, "source.find", item[p])
    /\ IF fate[p] = "nometa"
       THEN /\ ctr' = [ctr EXCEPT ![p] = FailCounter]
            /\ Goto(p, "load")
            /\ UNCHANGED item
       ELSE /\ item' = [item EXCEPT ![p].resolved = TRUE]
            /\ Goto(p, "staged")
            /\ UNCHANGED ctr
    /\ UNCHANGED <<ctrVars, storeVars, cfgVars, kh, fate, radcat, tmp, exc, histVars, runVars>>

\* if not source.proxy.exists(item), lines 194-200.
Staged(p) ==
    /\ pc[p] = "staged"
    /\ Logged(p, "proxy.exists", item[p])
    /\ IF fate[p] = "notstaged"
       THEN /\ ctr' = [ctr EXCEPT ![p] = FailCounter]
            /\ Goto(p, "load")
       ELSE /\ Goto(p, "anon")
            /\ UNCHANGED ctr
    /\ UNCHANGED <<ctrVars, storeVars, cfgVars, item, kh, fate, radcat, tmp, exc, histVars, runVars>>

\* lines 203-205.
Anon(p) ==
    /\ pc[p] = "anon"
    /\ Goto(p, "get")
    /\ IF ShouldAnonymize
       THEN /\ Logged(p, "proxy.anonymize", item[p])
            /\ item' = [item EXCEPT ![p].anon = TRUE]
       ELSE UNCHANGED <<log, item>>
    /\ UNCHANGED <<ctrVars, storeVars, cfgVars, kh, fate, radcat, tmp, ctr, exc, histVars, runVars>>

\* item = source.proxy.get(item, view=DixelView.FILE), lines 207-215.
\* "nofile": the proxy answers with an item whose file is empty.
Fetch(p) ==
    /\ pc[p] = "get"
    /\ Logged(p, "proxy.get", item[p])
    /\ CASE fate[p] \in {"ok", "delfail"} ->
               /\ item' = [item EXCEPT ![p].file = TRUE]
               /\ Goto(p, "put")
               /\ UNCHANGED <<ctr, exc>>
         [] fate[p] = "nofile" ->
               /\ Goto(p, "put")
               /\ UNCHANGED <<item, ctr, exc>>
         [] fate[p] = "notfound" ->         \* except FileNotFoundError
               /\ ctr' = [ctr EXCEPT ![p] = FailCounter]
               /\ Goto(p, "load")
               /\ UNCHANGED <<item, exc>>
         [] OTHER ->                         \* any other exception is not caught
               /\ Raise(p, "OtherError")
               /\ UNCHANGED <<item, ctr>>
    /\ UNCHANGED <<ctrVars, storeVars, cfgVars, kh, fate, radcat, tmp, histVars, runVars>>

\* DcmDir.put: no file raises ValueError, otherwise the gateway writes
\* item.file under item.fn().
DcmDirPutUnchecked(it) == "written"
DcmDirPut(it) == IF ~it.file THEN "ValueError" ELSE "written"

\* ImageDir.put: the derived-image store writes the record it is given.
ImageDirPut(it) == "written"

\* data_dest is an ImageDir if save_as_im, else a DcmDir (run, lines 53-61).
DataDestPut(it) == IF save_as_im THEN ImageDirPut(it) ELSE DcmDirPut(it)

\* data_dest.put(item), line 217.
Put(p) ==
    /\ pc[p] = "put"
    /\ Logged(p, "data_dest.put", item[p])
    /\ IF DataDestPut(item[p]) = "written"
       THEN /\ dest' = dest \cup {Fn(item[p])}
            /\ Goto(p, "delete")
            /\ UNCHANGED exc
       ELSE /\ Raise(p, DataDestPut(item[p]))
            /\ UNCHANGED dest
    /\ UNCHANGED <<ctrVars, reports, queue, sink, cfgVars, item, kh, fate, radcat, tmp, ctr,
                   histVars, runVars>>

\* source.proxy.delete(item), line 218, then on to handled.value += 1.
Delete(p) ==
    /\ pc[p] = "delete"
    /\ Logged(p, "proxy.delete", item[p])
    /\ IF fate[p] # "delfail"
       THEN /\ ctr' = [ctr EXCEPT ![p] = DoneCounter]
            /\ Goto(p, "load")
            /\ UNCHANGED exc
       ELSE /\ Raise(p, "OtherError")
            /\ UNCHANGED ctr
    /\ UNCHANGED <<ctrVars, storeVars, cfgVars, item, kh, fate, radcat, tmp, histVars, runVars>>

\* One step of the handle_item call that process p is in.
AfterKeying(p) ==
    \/ Report(p)
    \/ Exists(p)
    \/ Load(p)
    \/ Store(p)
    \/ Find(p)
    \/ Staged(p)
    \/ Anon(p)
    \/ Fetch(p)
    \/ Put(p)
    \/ Delete(p)

Handler(p) == KeyingStep(p) \/ AfterKeying(p)

\* ------------------------------------------------- one caller (Spec)
\* A process calls handle_item, one call after the other: any Dixel, any
\* key_handler argument (None is the declared default; the sink object; the
\* sink's queue).
Call ==
    /\ Quiet(Main)
    /\ ncalls < MaxCalls
    /\ \E a \in Items, k \in {"None", "Sink", "Queue"}, f \in Fates :
          Enter(Main, Dixel(a), k, f)
    /\ UNCHANGED <<ctrVars, storeVars, cfgVars, runVars>>

\* ------------------------------------- concurrent callers (SpecWorkers)
\* Worker processes that share the module's counters call handle_item at the
\* same time: with the sink's queue, as the partial of lines 85-90 binds it,
\* or without a key handler (the default of line 117).  The source answers
\* with no metadata or with success.
WorkerCall(p) ==
    /\ Quiet(p)
    /\ ncalls < MaxWorkerCalls
    /\ \E a \in Items, k \in {"None", "Queue"}, f \in {"nometa", "ok"} :
          Enter(p, Dixel(a), k, f)
    /\ UNCHANGED <<ctrVars, storeVars, cfgVars, runVars>>

InitFrames ==
    /\ handled = 0 /\ skipped = 0 /\ failed = 0
    /\ reports = {}
    /\ queue = <<>>
    /\ sink = {}
    /\ pc = [p \in Procs |-> "idle"]
    /\ item = [p \in Procs |-> NoItem]
    /\ kh = [p \in Procs |-> "None"]
    /\ radcat = [p \in Procs |-> "unset"]
    /\ tmp = [p \in Procs |-> 0]
    /\ ctr = [p \in Procs |-> "handled"]
    /\ exc = [p \in Procs |-> "none"]
    /\ log = [p \in Procs |-> <<>>]
    /\ fate = [p \in Procs |-> "ok"]
    /\ present = [p \in Procs |-> FALSE]
    /\ did = [p \in Procs |-> <<>>]
    /\ entry = [p \in Procs |-> <<0, 0, 0>>]
    /\ incs = [c \in CounterNames |-> 0]
    /\ ncalls = 0

InitConfig ==
    /\ dest \in SUBSET {Fn(Dixel(a)) : a \in Items}
    /\ dest0 = dest
    /\ keyed = <<>>
    /\ anonymize \in BOOLEAN
    /\ save_as_im \in BOOLEAN
    /\ inline_reports \in BOOLEAN

RunIdle ==
    /\ runpc = "idle"
    /\ runexc = "none"
    /\ pool_size = 0
    /\ pool = "none"
    /\ worklist = <<>>
    /\ wlKind = "list"
    /\ pos = 0
    /\ sinkTruthy = TRUE
    /\ optimized = FALSE
    /\ pfn = "unset"
    /\ keyWriter = "none"
    /\ slice = <<>>
    /\ pulls = <<>>
    /\ wall = 0
    /\ elapsed_time = 0

Init == InitFrames /\ InitConfig /\ RunIdle

Next == Call \/ Handler(Main)

Spec == Init /\ [][Next]_vars

\* The same caller with the key emissions of its calls on record, the
\* destination a raw-file store, empty at the start.
InitKeys ==
    /\ InitFrames /\ RunIdle
    /\ dest = {}
    /\ dest0 = dest
    /\ keyed = <<>>
    /\ anonymize = FALSE
    /\ save_as_im = FALSE
    /\ inline_reports \in BOOLEAN

NextKeys == Call \/ KeyingRecorded(Main) \/ AfterKeying(Main)

SpecKeys == InitKeys /\ [][NextKeys]_vars

NextWorkers == \E p \in Workers : WorkerCall(p) \/ Handler(p)

\* The workers of one pooled run share run's arguments; the destination is a
\* raw-file store without a separate report store.
InitWorkers ==
    /\ InitFrames /\ RunIdle
    /\ dest \in SUBSET {Fn(Dixel(a)) : a \in Items}
    /\ dest0 = dest
    /\ keyed = <<>>
    /\ anonymize \in BOOLEAN
    /\ save_as_im = FALSE
    /\ inline_reports = TRUE

SpecWorkers == InitWorkers /\ [][NextWorkers]_vars

\* ------------------------------------------------- Collector.run (SpecRun)
\* sublist_len, lines 31-34.
sublist_len_x3 == 3 * pool_size
sublist_len == 2 * pool_size

\* The element of the worklist at index i: a Dixel, or the bare string that
\* worklist_from_accession_nums (lines 36-41) puts in its list.
ItemAt(i) == IF wlKind = "accnums" THEN AccStr(worklist[i]) ELSE Dixel(worklist[i])

\* The key_handler handed to the serial calls: the CSVArrayPMap of line 74.
RunKeyHandler == IF sinkTruthy THEN "Sink" ELSE "EmptySink"

\* itertools.islice(worklist, n), consumed: the indexes yielded.  Over an
\* iterator it goes on where the last slice ended; over a list every call
\* starts a new iteration at the first element.
IsliceStart == IF wlKind = "iter" THEN pos ELSE 0
Islice(n) ==
    LET m == IF Len(worklist) - IsliceStart < n THEN Len(worklist) - IsliceStart ELSE n
    IN  [k \in 1..m |-> IsliceStart + k]

\* self.pool.map(f, iterable): nothing to do for an empty iterable; otherwise f
\* is pickled for the workers, which a started Process object refuses
\* (TypeError); a partial of handle_item is run on every element.
PoolMapOutcome(f, sl) ==
    IF sl = <<>> THEN "empty" ELSE IF f = "process" THEN "TypeError" ELSE "results"

\* timedelta.seconds: the seconds within the day, days are held apart.
SecondsPerDay == 86400
Seconds(d) == d % SecondsPerDay
Durations == {-1, 0, 1, 2, SecondsPerDay, SecondsPerDay + 1}

\* (toc - tic).seconds or 1
ElapsedTimeNoFloor(d) == Seconds(d)
ElapsedTime(d) == IF Seconds(d) = 0 THEN 1 ELSE Seconds(d)

RunEnded == runpc \in {"reported", "aborted"}

\* lines 51-76: tic, the destinations, the key handler, the branch on pool_size.
RunBegin ==
    /\ runpc = "start"
    /\ runpc' = IF pool_size = 0 THEN "serial" ELSE "pool_setup"
    /\ UNCHANGED <<ctrVars, storeVars, cfgVars, frameVars, histVars, pool_size, pool, runexc,
                   worklist, wlKind, pos, sinkTruthy, optimized, pfn, keyWriter, slice,
                   pulls, wall, elapsed_time>>

\* lines 77-83: the next iteration of `for item in worklist`, or its end.
SerialNext ==
    /\ runpc = "serial"
    /\ Quiet(Main) /\ pc[Main] # "raised"
    /\ IF pos < Len(worklist)
       THEN /\ \E f \in Fates : Enter(Main, ItemAt(pos + 1), RunKeyHandler, f)
            /\ pos' = pos + 1
            /\ UNCHANGED runpc
       ELSE /\ runpc' = "report"
            /\ UNCHANGED <<frameVars, histVars, pos>>
    /\ UNCHANGED <<ctrVars, storeVars, cfgVars, pool_size, pool, runexc, worklist, wlKind,
                   sinkTruthy, optimized, pfn, keyWriter, slice, pulls, wall, elapsed_time>>

\* An exception of handle_item leaves the loop and run.
SerialRaise ==
    /\ runpc = "serial"
    /\ pc[Main] = "raised"
    /\ runpc' = "aborted"
    /\ runexc' = exc[Main]
    /\ UNCHANGED <<ctrVars, storeVars, cfgVars, frameVars, histVars, pool_size, pool,
                   worklist, wlKind, pos, sinkTruthy, optimized, pfn, keyWriter, slice,
                   pulls, wall, elapsed_time>>

\* lines 85-92.  p is bound to the partial of handle_item, then rebound to
\* Process(key_handler.run): the bound method is the first positional
\* argument, group, and Process asserts `group is None`.  Without the assert
\* the process has no target; start() runs it and it does nothing.
PoolSetup ==
    /\ runpc = "pool_setup"
    /\ \E o \in BOOLEAN :
          /\ optimized' = o
          /\ IF ~o
             THEN /\ pfn' = "partial"
                  /\ runpc' = "aborted"
                  /\ runexc' = "AssertionError"
                  /\ UNCHANGED keyWriter
             ELSE /\ pfn' = "process"
                  /\ keyWriter' = "started"
                  /\ runpc' = "pool_map"
                  /\ UNCHANGED runexc
    /\ UNCHANGED <<ctrVars, storeVars, cfgVars, frameVars, histVars, pool_size, pool,
                   worklist, wlKind, pos, sinkTruthy, slice, pulls, wall, elapsed_time>>

\* lines 93-98: result = self.pool.map(p, islice(worklist, self.sublist_len)).
PoolMap ==
    /\ runpc = "pool_map"
    /\ LET sl == Islice(sublist_len)
       IN  /\ slice' = sl
           /\ pulls' = [i \in 1..Len(worklist) |->
                           IF \E k \in 1..Len(sl) : sl[k] = i THEN pulls[i] + 1 ELSE pulls[i]]
           /\ pos' = IF wlKind = "iter" THEN pos + Len(sl) ELSE pos
           /\ CASE PoolMapOutcome(pfn, sl) = "empty" ->      \* result == []: break
                       /\ runpc' = "terminate"
                       /\ UNCHANGED runexc
                [] PoolMapOutcome(pfn, sl) = "TypeError" ->
                       /\ runpc' = "aborted"
                       /\ runexc' = "TypeError"
                [] OTHER ->                                    \* the workers take the slice
                       /\ runpc' = "mapping"
                       /\ UNCHANGED runexc
    /\ UNCHANGED <<ctrVars, storeVars, cfgVars, frameVars, histVars, pool_size, pool,
                   worklist, wlKind, sinkTruthy, optimized, pfn, keyWriter, wall, elapsed_time>>

\* line 99: p.terminate().  self.pool is left as it is.
PoolTerminate ==
    /\ runpc = "terminate"
    /\ keyWriter' = "terminated"
    /\ runpc' = "report"
    /\ UNCHANGED <<ctrVars, storeVars, cfgVars, frameVars, histVars, pool_size, pool, runexc,
                   worklist, wlKind, pos, sinkTruthy, optimized, pfn, slice, pulls,
                   wall, elapsed_time>>

\* lines 101-108: elapsed_time = (toc - tic).seconds or 1, and the report.
RunReport ==
    /\ runpc = "report"
    /\ \E d \in Durations :
          /\ wall' = d
          /\ elapsed_time' = ElapsedTime(d)
    /\ runpc' = "reported"
    /\ UNCHANGED <<ctrVars, storeVars, cfgVars, frameVars, histVars, pool_size, pool, runexc,
                   worklist, wlKind, pos, sinkTruthy, optimized, pfn, keyWriter, slice,
                   pulls>>

Worklists == UNION {[1..n -> Items] : n \in 0..MaxLen}

\* A Collector with its pool (create_pool, lines 26-29) at the call of run.
InitRun ==
    /\ InitFrames
    /\ dest \in SUBSET {Fn(Dixel(a)) : a \in Items}
    /\ dest0 = dest
    /\ keyed = <<>>
    /\ anonymize \in BOOLEAN
    /\ save_as_im = FALSE
    /\ inline_reports = TRUE
    /\ pool_size \in 0..MaxPool
    /\ pool = IF pool_size > 0 THEN "running" ELSE "none"
    /\ worklist \in Worklists
    /\ wlKind \in {"list", "iter", "accnums"}
    /\ sinkTruthy \in BOOLEAN
    /\ optimized = FALSE
    /\ runpc = "start"
    /\ runexc = "none"
    /\ pos = 0
    /\ pfn = "unset"
    /\ keyWriter = "none"
    /\ slice = <<>>
    /\ pulls = [i \in 1..Len(worklist) |-> 0]
    /\ wall = 0
    /\ elapsed_time = 0

NextRun ==
    \/ RunBegin
    \/ SerialNext
    \/ SerialRaise
    \/ PoolSetup
    \/ PoolMap
    \/ PoolTerminate
    \/ RunReport
    \/ Handler(Main)

SpecRun == InitRun /\ [][NextRun]_vars

\* ================================================================ claims
Counters == <<handled, skipped, failed>>

\* What the counters gained since process p entered its call.
Delta(p) == <<handled - entry[p][1], skipped - entry[p][2], failed - entry[p][3]>>

CallEnded(p) == pc[p] \in {"returned", "raised"}

\* How often, and where, the call of p called op.
Count(p, op) == Cardinality({i \in 1..Len(log[p]) : log[p][i][1] = op})
Places(p, op) == {i \in 1..Len(log[p]) : log[p][i][1] = op}

SourceOps == {"source.find", "proxy.exists", "proxy.anonymize", "proxy.get", "proxy.delete"}

NoSourceCall(p) == \A i \in 1..Len(log[p]) : log[p][i][1] \notin SourceOps

\* C1: a call of handle_item that returns has increased exactly one of
\* handled, skipped, failed, by exactly 1, and left the other two as they were.
C1_ExactlyOneCounter ==
    pc[Main] = "returned" => Delta(Main) \in {<<1, 0, 0>>, <<0, 1, 0>>, <<0, 0, 1>>}

\* A second call has returned through another exit than the first.
C1_Witness ==
    /\ pc[Main] = "returned"
    /\ ncalls = 2
    /\ Counters \in {<<1, 1, 0>>, <<1, 0, 1>>, <<0, 1, 1>>}

\* C2: a call for an item that is at data_dest when the call is made calls
\* neither the source nor data_dest.put, and increases skipped by 1 and
\* nothing else.
C2_Idempotency ==
    \A p \in Procs :
        (CallEnded(p) /\ present[p]) =>
            /\ NoSourceCall(p)
            /\ Count(p, "data_dest.put") = 0
            /\ Delta(p) = <<0, 1, 0>>

\* C3: no increment is lost: each counter holds the number of increments
\* that calls have completed on it.
C3_NoLostUpdate ==
    /\ handled = incs["handled"]
    /\ skipped = incs["skipped"]
    /\ failed = incs["failed"]

\* C4: a run over a worklist whose items all are at the destination ends,
\* with pool_size = 0 as with pool_size > 0, with the counters
\* (0, length of the worklist, 0).
C4_SerialPooledSameCounters ==
    (RunEnded /\ \A i \in 1..Len(worklist) : Fn(Dixel(worklist[i])) \in dest0)
        => Counters = <<0, Len(worklist), 0>>

\* The items islice has handed to pool.map; none of them reaches a
\* terminal state afterwards.
InFlight == Len(slice)

\* C5: in a pooled run the items pulled from the worklist and not yet
\* terminal are at most 2 * pool_size.
C5_BoundedInFlight == pool_size > 0 => InFlight <= 2 * pool_size

\* A slice as long as the bound allows is with the pool.
C5_Witness ==
    /\ pool_size = 1
    /\ InFlight = 2
    /\ Len(worklist) > 2

\* C6: a pooled run ends with its final report, every item of the worklist
\* pulled into exactly one slice.
C6_PooledLoopTerminates ==
    (pool_size > 0 /\ RunEnded) =>
        /\ runpc = "reported"
        /\ \A i \in 1..Len(worklist) : pulls[i] = 1

\* C7: for an item not at the destination that the source resolves, stages
\* and delivers, the call puts the item with its payload once, then deletes
\* it at the proxy once, and only then increases handled by 1.
PutBeforeDelete(p) ==
    \A i \in Places(p, "proxy.delete") : \E j \in Places(p, "data_dest.put") : j < i
C7_SuccessPath ==
    \A p \in Procs :
        /\ PutBeforeDelete(p)
        /\ (CallEnded(p) /\ ~present[p] /\ fate[p] = "ok") =>
              /\ pc[p] = "returned"
              /\ Count(p, "data_dest.put") = 1
              /\ \A i \in Places(p, "data_dest.put") : log[p][i][2].file
              /\ Count(p, "proxy.delete") = 1
              /\ Delta(p) = <<1, 0, 0>>

\* C8: for an item not at the destination for which find returns nothing,
\* the call returns without raising, with failed increased by 1, the item's
\* tags untouched, no call of the source after find and no put.
C8_NoMetadataFailure ==
    \A p \in Procs :
        (CallEnded(p) /\ ~present[p] /\ fate[p] = "nometa") =>
            /\ pc[p] = "returned"
            /\ Delta(p) = <<0, 0, 1>>
            /\ item[p] = Dixel(item[p].acc)
            /\ Count(p, "source.find") = 1
            /\ \A op \in SourceOps \ {"source.find"} : Count(p, op) = 0
            /\ Count(p, "data_dest.put") = 0

\* C9: no step decreases a counter.
C9_CountersMonotone ==
    [][handled' >= handled /\ skipped' >= skipped /\ failed' >= failed]_vars

EmissionsOf(k, h) == {i \in 1..Len(keyed) : keyed[i][1] = k /\ keyed[i][3] = h}

Last(S) == CHOOSE i \in S : \A j \in S : j <= i

RowsOf(k) == {r \in sink : r[2] = k}

QueuedFor(k) == {i \in 1..Len(queue) : queue[i][1] = k}

\* C11: key upsert semantics.  Once (k, v1) and then (k, v2) were emitted to
\* the key sink, the sink stores exactly one row for k and it holds v2;
\* emitted through the queue, (k, v2) is the last row queued for k, so that
\* the writer's upserts end with it.  This holds of every key at once, so
\* the rows of the other keys are as their own last emission left them.
C11_KeyUpsert ==
    \A k \in Items :
        /\ Cardinality(EmissionsOf(k, "Sink")) >= 2 =>
               \E r \in sink :
                   /\ RowsOf(k) = {r}
                   /\ r[3] = keyed[Last(EmissionsOf(k, "Sink"))][2]
        /\ Cardinality(EmissionsOf(k, "Queue")) >= 2 =>
               /\ QueuedFor(k) # {}
               /\ queue[Last(QueuedFor(k))][2] = keyed[Last(EmissionsOf(k, "Queue"))][2]

\* C12: throughput floor.  Whatever toc - tic is, the elapsed_time that a
\* reporting run divides handled by is an integer of at least 1: it is 1
\* when the seconds of toc - tic are 0 and those seconds otherwise, and
\* handling_rate = handled / elapsed_time has a non-zero divisor.
C12_ThroughputFloor ==
    runpc = "reported" =>
        /\ elapsed_time \in Nat
        /\ elapsed_time >= 1
        /\ Seconds(wall) = 0 => elapsed_time = 1
        /\ Seconds(wall) # 0 => elapsed_time = Seconds(wall)

\* A run that took a whole day to the second reports with elapsed_time 1.
C12_Witness ==
    /\ runpc = "reported"
    /\ wall = SecondsPerDay
    /\ elapsed_time = 1

\* The calls that hand (key_id, key_data) over: to the queue (line 143) or to
\* the sink itself (line 145).
EmitOps == {"queue.put", "key_handler.put"}

Emissions(p) == {i \in 1..Len(log[p]) : log[p][i][1] \in EmitOps}

Before(p, S, op) == \A i \in S : \A j \in Places(p, op) : i < j

\* C14: a call with a key sink makes exactly one key emission, and with a
\* report destination exactly one report_dest.put, both before
\* data_dest.exists is evaluated, whatever the call ends as; the counters are
\* as they were at entry while the call is at these two steps.
C14_KeyAndReportFirst ==
    \A p \in Procs :
        /\ (CallEnded(p) \/ Count(p, "data_dest.exists") > 0) =>
              /\ Truthy(kh[p]) =>
                    /\ Cardinality(Emissions(p)) = 1
                    /\ Before(p, Emissions(p), "data_dest.exists")
              /\ ~inline_reports =>
                    /\ Count(p, "report_dest.put") = 1
                    /\ Before(p, Places(p, "report_dest.put"), "data_dest.exists")
        /\ pc[p] \in {"report", "exists"} => Delta(p) = <<0, 0, 0>>

\* The call of p asked find and proxy.exists, and both let the item through.
PassedChecks(p) ==
    /\ Count(p, "source.find") = 1
    /\ Count(p, "proxy.exists") = 1
    /\ fate[p] \notin {"nometa", "notstaged"}

\* C15: anonymization gating.  proxy.anonymize is called, once, exactly by
\* the calls whose item passed the find and proxy.exists checks while
\* anonymize is requested and data_dest is a DcmDir (not save_as_im); the
\* items then given to proxy.get and data_dest.put are the anonymized one,
\* and with anonymize requested nothing un-anonymized is put to, or arrives
\* in, a DcmDir.
C15_AnonymizationGating ==
    \A p \in Procs :
        /\ Count(p, "proxy.anonymize") <= 1
        /\ Count(p, "proxy.anonymize") = 1 =>
              /\ PassedChecks(p) /\ anonymize /\ ~save_as_im
              /\ \A i \in Places(p, "proxy.get") \cup Places(p, "data_dest.put") :
                    /\ \A j \in Places(p, "proxy.anonymize") : j < i
                    /\ log[p][i][2].anon
        /\ (PassedChecks(p) /\ pc[p] # "anon" /\ anonymize /\ ~save_as_im) =>
              Count(p, "proxy.anonymize") = 1
        /\ (anonymize /\ ~save_as_im) =>
              /\ \A i \in Places(p, "data_dest.put") : log[p][i][2].anon
              /\ \A f \in dest \ dest0 : f[2]

\* A call has anonymized, fetched and stored an item in a DcmDir.
C15_Witness ==
    /\ pc[Main] = "returned"
    /\ anonymize /\ ~save_as_im
    /\ Count(Main, "proxy.anonymize") = 1
    /\ Count(Main, "data_dest.put") = 1
    /\ Fn([item[Main] EXCEPT !.anon = TRUE]) \in dest \ dest0

\* C16: for an item not at the destination that the proxy does not hold
\* after find (proxy.exists false), or for which proxy.get raises
\* FileNotFoundError, the call returns without raising, with failed
\* increased by 1, handled and skipped as they were, and neither
\* data_dest.put nor proxy.delete called.
C16_StagingFetchFailure ==
    \A p \in Procs :
        (CallEnded(p) /\ ~present[p] /\ fate[p] \in {"notstaged", "notfound"}) =>
            /\ pc[p] = "returned"
            /\ Delta(p) = <<0, 0, 1>>
            /\ Count(p, "data_dest.put") = 0
            /\ Count(p, "proxy.delete") = 0

\* C17: an exception of proxy.get other than FileNotFoundError, the
\* ValueError of DcmDir.put for an item without a file, and an exception of
\* proxy.delete each end the call by propagating to the caller, the later
\* steps not taken; a call ended by an exception has increased no counter,
\* also when data_dest.put had stored the item before.
C17_UncaughtUncounted ==
    \A p \in Procs :
        /\ (Count(p, "proxy.get") = 1 /\ fate[p] = "geterror") =>
              /\ pc[p] = "raised" /\ exc[p] = "OtherError"
              /\ Count(p, "data_dest.put") = 0
        /\ (~save_as_im /\ \E i \in Places(p, "data_dest.put") : ~log[p][i][2].file) =>
              /\ pc[p] = "raised" /\ exc[p] = "ValueError"
              /\ Count(p, "proxy.delete") = 0
        /\ (Count(p, "proxy.delete") = 1 /\ fate[p] = "delfail") =>
              /\ pc[p] = "raised" /\ exc[p] = "OtherError"
              /\ Fn(item[p]) \in dest
        /\ pc[p] = "raised" => Delta(p) = <<0, 0, 0>> /\ did[p] = <<>>

\* proxy.delete raised after data_dest.put had stored the item; no counter moved.
C17_Witness ==
    /\ pc[Main] = "raised"
    /\ fate[Main] = "delfail"
    /\ Count(Main, "proxy.delete") = 1
    /\ Fn(item[Main]) \in dest \ dest0
    /\ Delta(Main) = <<0, 0, 0>>

\* A slice has been handed to the pool.
Dispatched == \E i \in 1..Len(worklist) : pulls[i] > 0

\* C18: lifecycle of the pooled run.  A serial run starts no Key Writer
\* process; a pooled run has started its Key Writer before a slice is
\* dispatched and by the time it ends, and once the slice loop is over, from
\* the final report on, both the worker pool and the Key Writer are
\* terminated.
C18_PooledLifecycle ==
    /\ pool_size = 0 => keyWriter = "none"
    /\ (pool_size > 0 /\ Dispatched) => keyWriter # "none"
    /\ (pool_size > 0 /\ RunEnded) => keyWriter # "none"
    /\ (pool_size > 0 /\ runpc \in {"report", "reported"}) =>
          /\ pool = "terminated"
          /\ keyWriter = "terminated"

\* What a call gains by the answers it is given: skipped for an item at the
\* destination, failed where find, proxy.exists or proxy.get turn it down,
\* handled where every step succeeds.
Outcome(p) ==
    IF present[p] THEN <<0, 1, 0>>
    ELSE IF fate[p] \in {"nometa", "notstaged", "notfound"} THEN <<0, 0, 1>>
    ELSE <<1, 0, 0>>

\* The key row of the call of p is with the queue or the sink, its radcat v.
KeyRowOut(p, v) ==
    \/ \E i \in 1..Len(queue) : queue[i] = <<item[p].acc, v>>
    \/ \E r \in sink : r[2] = item[p].acc /\ r[3] = v

\* C20: a call whose radcat() raised goes on with the empty category: no
\* counter has changed when it comes to the report step, with a key sink it
\* emits its key row, radcat empty, exactly once, and it ends as the same
\* call with a category would: returned, with skipped, failed or handled
\* increased by 1 as the destination and the source decide.
C20_RadcatFailureRecovered ==
    \A p \in Procs :
        /\ (pc[p] = "report" /\ radcat[p] = "") => Delta(p) = <<0, 0, 0>>
        /\ (CallEnded(p) /\ radcat[p] = "") =>
              /\ Truthy(kh[p]) =>
                    /\ Cardinality(Emissions(p)) = 1
                    /\ KeyRowOut(p, "")
              /\ (present[p] \/ fate[p] \in {"nometa", "notstaged", "notfound", "ok"}) =>
                    /\ pc[p] = "returned"
                    /\ Delta(p) = Outcome(p)

=============================================================================
